---- MODULE Spec2Model ----
(***************************************************************************)
(* The React front end of the AI SEO auditor: the Dashboard page with its   *)
(* two asynchronous handlers (handleAnalyze, handleDownload), the InputForm *)
(* that validates and submits a URL, and the ReportDisplay that renders a   *)
(* stored report.  The backend is the environment: it answers each request  *)
(* with a network error or an HTTP response.                                *)
(***************************************************************************)
EXTENDS Integers, Sequences, FiniteSets, TLC

VARIABLES
    reportData,   \* Dashboard state: the stored report, null at first
    isLoading,    \* Dashboard state
    error,        \* Dashboard state: the message of the error banner, or null
    url,          \* InputForm state: the text of the URL field, a sequence of characters
    formError,    \* InputForm state: its own validation message, or null
    calls,        \* the handler invocations awaiting a promise, in the order they started
    invoked,      \* the handler the latest event called ("none" for a step that calls none)
    view,         \* what the latest render returned
    probe         \* a color helper called on its own: its argument and its result

vars == <<reportData, isLoading, error, url, formError, calls, invoked, view, probe>>

----------------------------------------------------------------------------
(* Bounds *)

\* The longest issues_found list of a rendered report.
MaxIssues == 2
\* The most handler invocations pending at once when handlers are called directly.
MaxInFlight == 1
\* The top of the score scale ("/100").
MaxScore == 100

----------------------------------------------------------------------------
(* JavaScript values *)

Null == [type |-> "null"]
Undefined == [type |-> "undefined"]
Str(s) == [type |-> "string", val |-> s]
Num(n) == [type |-> "number", val |-> n]
Arr(items) == [type |-> "array", items |-> items]
Obj == [type |-> "object"]

\* ToBoolean: what `!v`, `v && ...` and `v || ...` test.
Truthy(v) ==
    CASE v.type = "null" -> FALSE
      [] v.type = "undefined" -> FALSE
      [] v.type = "string" -> v.val # ""
      [] v.type = "number" -> v.val # 0
      [] OTHER -> TRUE

\* a || b on strings.
OrElse(a, b) == IF a # "" THEN a ELSE b

\* String.prototype.startsWith on sequences of characters.
StartsWith(s, p) == Len(s) >= Len(p) /\ SubSeq(s, 1, Len(p)) = p

----------------------------------------------------------------------------
(* ReportDisplay.jsx *)

\* getScoreColor with its comparisons strict: 80 and 60 fall into the band below.
getScoreColorStrict(score) ==
    IF score > 80 THEN "bg-green-500"
    ELSE IF score > 60 THEN "bg-yellow-500"
    ELSE "bg-red-500"

\* getScoreColor: the class of the score circle.
getScoreColor(score) ==
    IF score >= 80 THEN "bg-green-500"
    ELSE IF score >= 60 THEN "bg-yellow-500"
    ELSE "bg-red-500"

\* getPriorityColor whose default is the Medium badge.
getPriorityColorDefaultMedium(priority) ==
    CASE priority = "High" -> "bg-red-100 text-red-800"
      [] priority = "Low" -> "bg-green-100 text-green-800"
      [] OTHER -> "bg-yellow-100 text-yellow-800"

\* getPriorityColor: the classes of an issue's badge.
getPriorityColor(priority) ==
    CASE priority = "High" -> "bg-red-100 text-red-800"
      [] priority = "Medium" -> "bg-yellow-100 text-yellow-800"
      [] priority = "Low" -> "bg-green-100 text-green-800"
      [] OTHER -> "bg-gray-100 text-gray-800"

\* One entry of issues_found; the row shows its texts and colors its badge by priority.
Issue(priority) == [type |-> "object", priority |-> priority]

\* A seo_report object; a field the JSON lacks reads as undefined.
Report(score, issues, tech, keywords) ==
    [type |-> "object", overall_seo_score |-> score, issues_found |-> issues,
     technical_seo_evaluation |-> tech, keyword_strategy_suggestions |-> keywords]

\* The guard of ReportDisplay: `!report || !report.overall_seo_score`.
NoReportData(report) == ~Truthy(report) \/ ~Truthy(report.overall_seo_score)

\* issues_found.map, Object.entries(technical_seo_evaluation) and
\* keyword_strategy_suggestions.map throw a TypeError on undefined.
RenderThrows(report) ==
    \/ report.issues_found.type = "undefined"
    \/ report.technical_seo_evaluation.type = "undefined"
    \/ report.keyword_strategy_suggestions.type = "undefined"

\* The download button's `disabled` attribute.
DownloadDisabled(loading) == loading

\* ReportDisplay({report, onDownload, isLoading}): what the component returns.
ReportDisplay(report, loading) ==
    IF NoReportData(report) THEN
        [kind |-> "placeholder", text |-> "No SEO report data to display."]
    ELSE IF RenderThrows(report) THEN
        [kind |-> "throws"]
    ELSE
        [kind |-> "report",
         score |-> report.overall_seo_score,
         scoreColor |-> getScoreColor(report.overall_seo_score.val),
         rows |-> [i \in 1..Len(report.issues_found.items) |->
                     [priority |-> report.issues_found.items[i].priority,
                      badge |-> getPriorityColor(report.issues_found.items[i].priority)]],
         downloadDisabled |-> DownloadDisabled(loading)]

----------------------------------------------------------------------------
(* InputForm.jsx (src/unnamed/part_000) *)

\* A submit button that is never disabled.
SubmitDisabledNever(loading) == FALSE

\* The submit button's `disabled` attribute.
SubmitDisabled(loading) == loading

\* InputForm({onAnalyze, isLoading}): what the component returns.
InputForm(loading, u, ferr) ==
    [kind |-> "form", value |-> u, error |-> ferr, submitDisabled |-> SubmitDisabled(loading)]

----------------------------------------------------------------------------
(* Dashboard.jsx: the render *)

\* What Dashboard returns: the error banner, the form or the report, and the
\* "Start New Analysis" button.  A child that throws while rendering takes the
\* whole tree down (there is no error boundary).
Dashboard(rd, loading, err, u, ferr) ==
    LET main == IF ~Truthy(rd) THEN InputForm(loading, u, ferr) ELSE ReportDisplay(rd, loading)
    IN  IF main.kind = "throws"
        THEN [crashed |-> TRUE, banner |-> Null, main |-> main, startNew |-> FALSE]
        ELSE [crashed |-> FALSE,
              banner |-> IF Truthy(err) THEN err ELSE Null,
              main |-> main,
              startNew |-> Truthy(rd)]

----------------------------------------------------------------------------
(* The URL field: <input type="url" required> *)

HttpPrefix == <<"h", "t", "t", "p", ":", "/", "/">>
HttpsPrefix == <<"h", "t", "t", "p", "s", ":", "/", "/">>

\* What the user may type into the field.
TypedUrls ==
    { HttpPrefix \o <<"a">>,
      HttpsPrefix \o <<"a">>,
      <<"H", "T", "T", "P", "S", ":", "/", "/", "a">>,
      <<"f", "t", "p", ":", "/", "/", "a">>,
      HttpPrefix,
      <<>> }

Letters == {"a", "f", "h", "p", "s", "t", "H", "P", "S", "T"}

\* ASCII lowercase, over the letters typed.
Lower(c) ==
    CASE c = "H" -> "h"
      [] c = "P" -> "p"
      [] c = "S" -> "s"
      [] c = "T" -> "t"
      [] OTHER -> c

\* The index of the first ":" of u, 0 when it has none.
ColonAt(u) ==
    IF \E i \in 1..Len(u) : u[i] = ":"
    THEN CHOOSE i \in 1..Len(u) : u[i] = ":" /\ \A j \in 1..(i - 1) : u[j] # ":"
    ELSE 0

\* The scheme of u, which compares case-insensitively.
Scheme(u) == [i \in 1..(ColonAt(u) - 1) |-> Lower(u[i])]

\* What follows the scheme's ":" once the leading slashes are dropped: the host.
RECURSIVE DropSlashes(_)
DropSlashes(r) == IF r # <<>> /\ Head(r) = "/" THEN DropSlashes(Tail(r)) ELSE r

Host(u) == DropSlashes(SubSeq(u, ColonAt(u) + 1, Len(u)))

\* u parses as an absolute URL: a scheme of letters, then a host.
IsAbsoluteUrl(u) ==
    /\ ColonAt(u) > 1
    /\ \A i \in 1..(ColonAt(u) - 1) : u[i] \in Letters
    /\ Host(u) # <<>>

\* The browser's constraint validation of the field, which runs before the
\* form's submit event: `required` and type="url".
ValidUrlField(u) == u # <<>> /\ IsAbsoluteUrl(u)

----------------------------------------------------------------------------
(* The backend, as the fetch API shows it *)

GoodReport == Report(Num(72), Arr(<<Issue("High")>>), Obj, Arr(<<>>))
ZeroReport == Report(Num(0), Arr(<<>>), Obj, Arr(<<>>))
NoScoreReport == Report(Undefined, Arr(<<>>), Obj, Arr(<<>>))
NoListsReport == Report(Num(85), Undefined, Undefined, Undefined)
BetterReport == Report(Num(85), Arr(<<Issue("Low"), Issue("urgent")>>), Obj, Arr(<<>>))

TextGood == "{\"seo_report\":{\"overall_seo_score\":72,\"issues_found\":[{\"priority\":\"High\"}],\"technical_seo_evaluation\":{},\"keyword_strategy_suggestions\":[]}}"
TextBetter == "{\"seo_report\":{\"overall_seo_score\":85,\"issues_found\":[{\"priority\":\"Low\"},{\"priority\":\"urgent\"}],\"technical_seo_evaluation\":{},\"keyword_strategy_suggestions\":[]}}"
TextZero == "{\"seo_report\":{\"overall_seo_score\":0,\"issues_found\":[],\"technical_seo_evaluation\":{},\"keyword_strategy_suggestions\":[]}}"
TextNoScore == "{\"seo_report\":{\"issues_found\":[],\"technical_seo_evaluation\":{},\"keyword_strategy_suggestions\":[]}}"
TextNoLists == "{\"seo_report\":{\"overall_seo_score\":85}}"
TextNoReport == "{\"status\":\"ok\"}"
TextDetail == "{\"detail\":\"Could not fetch the page\"}"
TextPlain == "Internal Server Error"
TextEmpty == ""
PdfBytes == "%PDF-1.4"

\* JSON.parse of a response body; `value.seo_report` is what data.seo_report reads
\* (undefined when the object has no such key).
JsonParse(text) ==
    CASE text = TextGood -> [ok |-> TRUE, value |-> [type |-> "object", seo_report |-> GoodReport]]
      [] text = TextBetter -> [ok |-> TRUE, value |-> [type |-> "object", seo_report |-> BetterReport]]
      [] text = TextZero -> [ok |-> TRUE, value |-> [type |-> "object", seo_report |-> ZeroReport]]
      [] text = TextNoScore -> [ok |-> TRUE, value |-> [type |-> "object", seo_report |-> NoScoreReport]]
      [] text = TextNoLists -> [ok |-> TRUE, value |-> [type |-> "object", seo_report |-> NoListsReport]]
      [] text = TextNoReport -> [ok |-> TRUE, value |-> [type |-> "object", seo_report |-> Undefined]]
      [] text = TextDetail -> [ok |-> TRUE, value |-> [type |-> "object", seo_report |-> Undefined]]
      [] text = TextEmpty -> [ok |-> FALSE, message |-> "Unexpected end of JSON input"]
      [] OTHER -> [ok |-> FALSE, message |-> "Unexpected token 'I', \"Internal S\"... is not valid JSON"]

NoResp == [kind |-> "pending"]
NoProbe == [fn |-> "none"]
NetErr(msg) == [kind |-> "neterr", message |-> msg]
Http(ok, body) == [kind |-> "http", ok |-> ok, body |-> body]

\* The message of the error a rejected fetch carries.
NetErrMessages == {"Failed to fetch", ""}

ErrorBodies == {TextDetail, TextPlain, TextEmpty}

\* How a fetch of /analyze may settle.
AnalyzeResponses ==
    {NetErr(m) : m \in NetErrMessages}
    \cup {Http(TRUE, t) : t \in {TextGood, TextBetter, TextZero, TextNoScore, TextNoLists, TextNoReport, TextPlain}}
    \cup {Http(FALSE, t) : t \in ErrorBodies}

\* How a fetch of /download may settle.
DownloadResponses ==
    {NetErr(m) : m \in NetErrMessages}
    \cup {Http(TRUE, PdfBytes)}
    \cup {Http(FALSE, t) : t \in ErrorBodies}

\* Body.text(): rejects once the body has been read (by json(), here).
ReadText(call) ==
    IF call.bodyUsed
    THEN [ok |-> FALSE,
          message |-> "Failed to execute 'text' on 'Response': body stream already read"]
    ELSE [ok |-> TRUE, value |-> call.resp.body]

----------------------------------------------------------------------------
(* Dashboard.jsx and InputForm.jsx: the handlers *)

Remove(seq, i) == SubSeq(seq, 1, i - 1) \o SubSeq(seq, i + 1, Len(seq))

\* A handler invocation suspended at its first await.
NewCall(op, request) ==
    [op |-> op, request |-> request, pc |-> "fetch", resp |-> NoResp, bodyUsed |-> FALSE]

\* fetch(`${API_BASE_URL}/analyze`, {method: 'POST', body: JSON.stringify({url})})
AnalyzeRequest(u) == [endpoint |-> "/analyze", method |-> "POST", body |-> [url |-> u]]

\* A download that posts the report to the analyze endpoint.
DownloadRequestToAnalyze(rd) == [endpoint |-> "/analyze", method |-> "POST", body |-> [seo_report |-> rd]]

\* fetch(`${API_BASE_URL}/download`, {method: 'POST', body: JSON.stringify({seo_report: reportData})})
DownloadRequest(rd) == [endpoint |-> "/download", method |-> "POST", body |-> [seo_report |-> rd]]

\* Every state update ends in a render.
Rendered ==
    /\ view' = Dashboard(reportData', isLoading', error', url', formError')
    /\ UNCHANGED probe

\* handleAnalyze up to its first await.
handleAnalyze(u) ==
    /\ isLoading' = TRUE
    /\ reportData' = Null
    /\ error' = Null
    /\ calls' = Append(calls, NewCall("analyze", AnalyzeRequest(u)))

\* InputForm's test of the URL: it starts with neither prefix.
RejectsUrl(u) == ~StartsWith(u, HttpPrefix) /\ ~StartsWith(u, HttpsPrefix)

\* InputForm.handleSubmit.
handleSubmit ==
    /\ invoked' = "handleSubmit"
    /\ IF RejectsUrl(url)
       THEN /\ formError' = Str("Please enter a valid URL starting with http:// or https://")
            /\ UNCHANGED <<reportData, isLoading, error, calls>>
       ELSE /\ formError' = Null
            /\ handleAnalyze(url)
    /\ UNCHANGED url
    /\ Rendered

\* handleDownload without its guard.
NoReportToDownloadNever(rd) == FALSE

\* The guard of handleDownload: `!reportData`.
NoReportToDownload(rd) == ~Truthy(rd)

\* handleDownload up to its first await.
handleDownload ==
    /\ invoked' = "handleDownload"
    /\ IF NoReportToDownload(reportData)
       THEN /\ error' = Str("No report data available to download.")
            /\ UNCHANGED <<isLoading, calls>>
       ELSE /\ error' = Null
            /\ isLoading' = TRUE
            /\ calls' = Append(calls, NewCall("download", DownloadRequest(reportData)))
    /\ UNCHANGED <<reportData, url, formError>>
    /\ Rendered

\* handleAnalyze's catch without its fallback text.
AnalyzeErrorTextNoFallback(msg) == msg

\* The message handleAnalyze's catch shows.
AnalyzeErrorText(msg) == OrElse(msg, "An unexpected error occurred during analysis.")

\* The message handleDownload's catch shows.
DownloadErrorText(msg) == OrElse(msg, "An error occurred during PDF download.")

\* A handler without its `finally`.
FinallyLoadingMissing == TRUE

\* What `finally` leaves in isLoading.
FinallyLoading == FALSE

\* handleAnalyze's catch and finally, for an error with message msg.
AnalyzeCatch(i, msg) ==
    /\ error' = Str(AnalyzeErrorText(msg))
    /\ isLoading' = FinallyLoading
    /\ calls' = Remove(calls, i)
    /\ UNCHANGED <<reportData, url, formError>>

\* handleDownload's catch and finally, for an error with message msg.
DownloadCatch(i, msg) ==
    /\ error' = Str(DownloadErrorText(msg))
    /\ isLoading' = FinallyLoading
    /\ calls' = Remove(calls, i)
    /\ UNCHANGED <<reportData, url, formError>>

----------------------------------------------------------------------------
(* The events *)

\* The user edits the URL field (onChange).
SetUrl(u) ==
    /\ view.main.kind = "form"
    /\ url' = u
    /\ invoked' = "onChange"
    /\ UNCHANGED <<reportData, isLoading, error, formError, calls>>
    /\ Rendered

\* The user submits the form: the button is enabled and the field is valid.
Submit ==
    /\ view.main.kind = "form"
    /\ ~view.main.submitDisabled
    /\ ValidUrlField(url)
    /\ handleSubmit

\* The user clicks the download button of the report.
ClickDownload ==
    /\ view.main.kind = "report"
    /\ ~view.main.downloadDisabled
    /\ handleDownload

\* The user clicks "Start New Analysis": setReportData(null).
StartNew ==
    /\ view.startNew
    /\ reportData' = Null
    /\ invoked' = "startNew"
    /\ UNCHANGED <<isLoading, error, url, formError, calls>>
    /\ Rendered

\* The network settles the fetch of call i.
FetchSettles(i) ==
    /\ calls[i].pc = "fetch"
    /\ \E r \in IF calls[i].op = "analyze" THEN AnalyzeResponses ELSE DownloadResponses :
          calls' = [calls EXCEPT ![i].resp = r, ![i].pc = "fetched"]
    /\ invoked' = "none"
    /\ UNCHANGED <<reportData, isLoading, error, url, formError, view, probe>>

\* handleAnalyze resumes after `await fetch`: a rejection goes to catch, a
\* response is read with response.json().
AnalyzeAfterFetch(i) ==
    /\ calls[i].op = "analyze"
    /\ calls[i].pc = "fetched"
    /\ invoked' = "none"
    /\ IF calls[i].resp.kind = "neterr"
       THEN AnalyzeCatch(i, calls[i].resp.message)
       ELSE /\ calls' = [calls EXCEPT ![i].pc = "json", ![i].bodyUsed = TRUE]
            /\ UNCHANGED <<reportData, isLoading, error, url, formError>>
    /\ Rendered

\* handleAnalyze resumes after `await response.json()`: a body that does not
\* parse goes to catch; a non-ok response asks for response.text(); an ok one
\* stores data.seo_report and runs finally.  A stored report replaces the
\* form, whose state is lost.
AnalyzeAfterJson(i) ==
    /\ calls[i].op = "analyze"
    /\ calls[i].pc = "json"
    /\ invoked' = "none"
    /\ LET data == JsonParse(calls[i].resp.body)
       IN  IF ~data.ok
           THEN AnalyzeCatch(i, data.message)
           ELSE IF ~calls[i].resp.ok
           THEN /\ calls' = [calls EXCEPT ![i].pc = "text"]
                /\ UNCHANGED <<reportData, isLoading, error, url, formError>>
           ELSE /\ reportData' = data.value.seo_report
                /\ isLoading' = FinallyLoading
                /\ calls' = Remove(calls, i)
                /\ url' = IF Truthy(data.value.seo_report) THEN <<>> ELSE url
                /\ formError' = IF Truthy(data.value.seo_report) THEN Null ELSE formError
                /\ UNCHANGED error
    /\ Rendered

\* handleAnalyze resumes after `await response.text()` of a non-ok response:
\* a rejection goes to catch, and so does the Error thrown with the text.
AnalyzeAfterText(i) ==
    /\ calls[i].op = "analyze"
    /\ calls[i].pc = "text"
    /\ invoked' = "none"
    /\ LET errorMessage == ReadText(calls[i])
       IN  IF ~errorMessage.ok
           THEN AnalyzeCatch(i, errorMessage.message)
           ELSE AnalyzeCatch(i, OrElse(errorMessage.value, "Failed to get SEO analysis from backend."))
    /\ Rendered

\* handleDownload resumes after `await fetch`.
DownloadAfterFetch(i) ==
    /\ calls[i].op = "download"
    /\ calls[i].pc = "fetched"
    /\ invoked' = "none"
    /\ IF calls[i].resp.kind = "neterr"
       THEN DownloadCatch(i, calls[i].resp.message)
       ELSE /\ calls' = [calls EXCEPT ![i].pc = IF calls[i].resp.ok THEN "blob" ELSE "text",
                                      ![i].bodyUsed = TRUE]
            /\ UNCHANGED <<reportData, isLoading, error, url, formError>>
    /\ Rendered

\* handleDownload resumes after `await response.text()` of a non-ok response.
\* The text was asked of an unread body (bodyUsed was false at the call).
DownloadAfterText(i) ==
    /\ calls[i].op = "download"
    /\ calls[i].pc = "text"
    /\ invoked' = "none"
    /\ DownloadCatch(i, OrElse(calls[i].resp.body, "Failed to generate PDF."))
    /\ Rendered

\* handleDownload resumes after `await response.blob()`: the file is handed to
\* the browser through a temporary link, then finally runs.
DownloadAfterBlob(i) ==
    /\ calls[i].op = "download"
    /\ calls[i].pc = "blob"
    /\ invoked' = "none"
    /\ isLoading' = FinallyLoading
    /\ calls' = Remove(calls, i)
    /\ UNCHANGED <<reportData, error, url, formError>>
    /\ Rendered

----------------------------------------------------------------------------
(* Specifications *)

Init ==
    /\ reportData = Null
    /\ isLoading = FALSE
    /\ error = Null
    /\ url = <<>>
    /\ formError = Null
    /\ calls = <<>>
    /\ invoked = "none"
    /\ view = Dashboard(Null, FALSE, Null, <<>>, Null)
    /\ probe = NoProbe

\* A promise settles or a suspended handler resumes.
Progress ==
    \E i \in DOMAIN calls :
        \/ FetchSettles(i)
        \/ AnalyzeAfterFetch(i)
        \/ AnalyzeAfterJson(i)
        \/ AnalyzeAfterText(i)
        \/ DownloadAfterFetch(i)
        \/ DownloadAfterText(i)
        \/ DownloadAfterBlob(i)

Next ==
    \/ \E u \in TypedUrls : SetUrl(u)
    \/ Submit
    \/ ClickDownload
    \/ StartNew
    \/ \E i \in DOMAIN calls : FetchSettles(i)
    \/ \E i \in DOMAIN calls : AnalyzeAfterFetch(i)
    \/ \E i \in DOMAIN calls : AnalyzeAfterJson(i)
    \/ \E i \in DOMAIN calls : AnalyzeAfterText(i)
    \/ \E i \in DOMAIN calls : DownloadAfterFetch(i)
    \/ \E i \in DOMAIN calls : DownloadAfterText(i)
    \/ \E i \in DOMAIN calls : DownloadAfterBlob(i)

\* The page as the user drives it.
Spec == Init /\ [][Next]_vars

\* The page as the user drives it, every pending fetch settling and every
\* suspended handler resuming in the end.
LiveSpec == Init /\ [][Next]_vars /\ WF_vars(Progress)

\* handleDownload called as a function, whatever the page shows.
DirectDownload ==
    /\ Truthy(reportData) => Len(calls) < MaxInFlight
    /\ handleDownload

NextDirect == Next \/ DirectDownload

\* The page with its download handler also called directly.
SpecDirect == Init /\ [][NextDirect]_vars

----------------------------------------------------------------------------
(* Rendering a report, and the color helpers on their own *)

Priorities == {"High", "Medium", "Low", "urgent"}

\* The sequences over S of length at most n.
RECURSIVE SeqsUpTo(_, _)
SeqsUpTo(S, n) ==
    IF n = 0 THEN {<<>>}
    ELSE LET shorter == SeqsUpTo(S, n - 1)
         IN  shorter \cup {Append(q, x) : q \in shorter, x \in S}

\* The seo_report objects a response may carry.
RenderReports ==
    { Report(score, issues, tech, keywords) :
        score \in {Num(n) : n \in 0..MaxScore} \cup {Undefined},
        issues \in {Arr(q) : q \in SeqsUpTo({Issue(p) : p \in Priorities}, MaxIssues)} \cup {Undefined},
        tech \in {Obj, Undefined},
        keywords \in {Arr(<<>>), Undefined} }

Unrendered ==
    [crashed |-> FALSE, banner |-> Null, main |-> [kind |-> "unrendered"], startNew |-> FALSE]

\* setReportData(data.seo_report) has run and the render is due.
InitRender ==
    /\ reportData \in RenderReports
    /\ isLoading = FALSE
    /\ error = Null
    /\ url = <<>>
    /\ formError = Null
    /\ calls = <<>>
    /\ invoked = "none"
    /\ view = Unrendered
    /\ probe = NoProbe

RenderStep ==
    /\ view = Unrendered
    /\ view' = Dashboard(reportData, isLoading, error, url, formError)
    /\ UNCHANGED <<reportData, isLoading, error, url, formError, calls, invoked, probe>>

SpecRender == InitRender /\ [][RenderStep]_vars

CallGetScoreColor(n) ==
    /\ probe = NoProbe
    /\ probe' = [fn |-> "getScoreColor", arg |-> n, result |-> getScoreColor(n)]
    /\ UNCHANGED <<reportData, isLoading, error, url, formError, calls, invoked, view>>

CallGetPriorityColor(p) ==
    /\ probe = NoProbe
    /\ probe' = [fn |-> "getPriorityColor", arg |-> p, result |-> getPriorityColor(p)]
    /\ UNCHANGED <<reportData, isLoading, error, url, formError, calls, invoked, view>>

NextHelpers ==
    \/ \E n \in 0..MaxScore : CallGetScoreColor(n)
    \/ \E p \in Priorities : CallGetPriorityColor(p)

SpecHelpers == Init /\ [][NextHelpers]_vars

----------------------------------------------------------------------------
(* Properties *)

\* Call i ends in this step.
Finishes(i) == calls' = Remove(calls, i)

\* The audit of an analyze call failed: a network error, a non-success status,
\* or a body that does not parse.
AnalysisFailed(call) ==
    \/ call.resp.kind = "neterr"
    \/ /\ call.resp.kind = "http"
       /\ (~call.resp.ok \/ ~JsonParse(call.resp.body).ok)

NonEmptyMessage(e) == e.type = "string" /\ e.val # ""

\* C1: when handleAnalyze finishes with a failure (network error, non-success
\* status, unparsable body), reportData is null, error is a non-empty message
\* and the page shows the form, not a report.
C1_FailedAnalysisLeavesNoReport ==
    [][\A i \in DOMAIN calls :
          (calls[i].op = "analyze" /\ AnalysisFailed(calls[i]) /\ Finishes(i))
          => /\ reportData' = Null
             /\ NonEmptyMessage(error')
             /\ view'.main.kind = "form"
             /\ view'.banner = error']_vars

\* A failed analysis has finished: its error is shown and no report is stored.
C1_Witness ==
    /\ calls = <<>>
    /\ ~isLoading
    /\ reportData = Null
    /\ error = Str("Unexpected end of JSON input")
    /\ view.main.kind = "form"

\* C2: when the /analyze response has a non-success status, the error shown
\* is the response's body text, or 'Failed to get SEO analysis from backend.'
\* when that text is empty.
C2_ErrorIsBackendText ==
    [][\A i \in DOMAIN calls :
          (/\ calls[i].op = "analyze"
           /\ calls[i].resp.kind = "http"
           /\ ~calls[i].resp.ok
           /\ Finishes(i))
          => error' = Str(IF calls[i].resp.body # ""
                          THEN calls[i].resp.body
                          ELSE "Failed to get SEO analysis from backend.")]_vars

\* The report has an integer score in 0..100 and its list and mapping fields.
WellFormedReport(r) ==
    /\ r.type = "object"
    /\ r.overall_seo_score.type = "number"
    /\ r.overall_seo_score.val \in 0..MaxScore
    /\ r.issues_found.type = "array"
    /\ r.technical_seo_evaluation.type = "object"
    /\ r.keyword_strategy_suggestions.type = "array"

\* C3: a report with an integer score in 0..100 (0 included) and its list and
\* mapping fields present renders in full with that score; the placeholder
\* shows only for a report that is absent or has no score.
C3_WellFormedReportRenders ==
    view # Unrendered =>
        /\ WellFormedReport(reportData) =>
              /\ view.main.kind = "report"
              /\ view.main.score = reportData.overall_seo_score
        /\ view.main.kind = "placeholder" =>
              \/ reportData.type # "object"
              \/ reportData.overall_seo_score.type = "undefined"

\* The URL is absolute and its scheme is http or https.
IsAbsoluteHttpUrl(u) == IsAbsoluteUrl(u) /\ Scheme(u) \in {<<"h", "t", "t", "p">>, <<"h", "t", "t", "p", "s">>}

\* C4: handleSubmit calls onAnalyze(url) exactly once when the URL is absolute
\* with scheme http or https, and otherwise sets its validation error and
\* starts nothing; every /analyze request carries an absolute http(s) URL.
C4_SubmitIffAbsoluteHttpUrl ==
    [][invoked' = "handleSubmit" =>
          IF IsAbsoluteHttpUrl(url)
          THEN calls' = Append(calls, NewCall("analyze",
                   [endpoint |-> "/analyze", method |-> "POST", body |-> [url |-> url]]))
          ELSE /\ calls' = calls
               /\ NonEmptyMessage(formError')]_vars

\* C5: handleDownload issues exactly one POST to /download whose body is
\* {seo_report: the stored report}, and no step of a download (its start, its
\* settling, its end) issues a request to /analyze.
C5_DownloadPostsStoredReport ==
    [][/\ (invoked' = "handleDownload" /\ Truthy(reportData)) =>
              calls' = Append(calls, NewCall("download",
                   [endpoint |-> "/download", method |-> "POST",
                    body |-> [seo_report |-> reportData]]))
       /\ (\E j \in DOMAIN calls' :
              /\ calls'[j].request.endpoint = "/analyze"
              /\ calls'[j].pc = "fetch"
              /\ Len(calls') > Len(calls))
          => invoked' = "handleSubmit"]_vars

\* handleDownload has just sent its request for the stored report.
C5_Witness ==
    /\ invoked = "handleDownload"
    /\ Len(calls) = 1
    /\ calls[1].pc = "fetch"
    /\ calls[1].request = [endpoint |-> "/download", method |-> "POST",
                           body |-> [seo_report |-> BetterReport]]

\* C6: handleDownload called while reportData is null sets the error 'No
\* report data available to download.', sends no request and leaves isLoading
\* and reportData as they were; a /download request starts only from a stored
\* report.
C6_NoReportNoDownload ==
    [][/\ (invoked' = "handleDownload" /\ reportData = Null) =>
              /\ error' = Str("No report data available to download.")
              /\ calls' = calls
              /\ isLoading' = isLoading
              /\ reportData' = reportData
       /\ (Len(calls') > Len(calls) /\ calls'[Len(calls')].request.endpoint = "/download")
          => /\ reportData.type = "object"
             /\ calls'[Len(calls')].request.body.seo_report = reportData]_vars

\* handleDownload was called with no report, while an analysis was loading.
C6_Witness ==
    /\ invoked = "handleDownload"
    /\ reportData = Null
    /\ isLoading
    /\ Len(calls) = 1
    /\ calls[1].op = "analyze"
    /\ error = Str("No report data available to download.")

\* The band of a score: green from 80, amber from 60 to 79, red below.
ScoreBand(score) ==
    CASE score >= 80 -> "bg-green-500"
      [] score >= 60 /\ score < 80 -> "bg-yellow-500"
      [] OTHER -> "bg-red-500"

\* C7: getScoreColor gives every integer score in 0..100 the color of its
\* band: green when score >= 80, amber when 60 <= score < 80, red otherwise.
C7_ScoreColorBands ==
    probe.fn = "getScoreColor" =>
        /\ probe.arg \in 0..MaxScore
        /\ probe.result = ScoreBand(probe.arg)

\* getScoreColor was called at the lower edge of the amber band.
C7_Witness ==
    /\ probe.fn = "getScoreColor"
    /\ probe.arg = 60
    /\ probe.result = "bg-yellow-500"

\* The badge of a priority: red for High, amber for Medium, green for Low,
\* gray for anything else.
PriorityBadge(priority) ==
    IF priority = "High" THEN "bg-red-100 text-red-800"
    ELSE IF priority = "Medium" THEN "bg-yellow-100 text-yellow-800"
    ELSE IF priority = "Low" THEN "bg-green-100 text-green-800"
    ELSE "bg-gray-100 text-gray-800"

\* C8: in a rendered report there is one row per issue, in order, and each
\* row's badge has the color of that issue's own priority: red for High, amber
\* for Medium, green for Low, gray for any other value.
C8_BadgeByOwnPriority ==
    view.main.kind = "report" =>
        /\ Len(view.main.rows) = Len(reportData.issues_found.items)
        /\ \A i \in DOMAIN view.main.rows :
              /\ view.main.rows[i].priority = reportData.issues_found.items[i].priority
              /\ view.main.rows[i].badge = PriorityBadge(reportData.issues_found.items[i].priority)

\* A report with two issues of different priorities, one of them unknown, is rendered.
C8_Witness ==
    /\ view.main.kind = "report"
    /\ Len(view.main.rows) = 2
    /\ view.main.rows[1].priority = "urgent"
    /\ view.main.rows[1].badge = "bg-gray-100 text-gray-800"
    /\ view.main.rows[2].priority = "High"
    /\ view.main.rows[2].badge = "bg-red-100 text-red-800"

\* C9: at most one request is in flight at any time, a request starts only
\* when none is in flight, and reportData is set to a value other than null
\* only from the response of the one analysis in flight.
C9_OneRequestInFlight ==
    /\ [](Len(calls) <= 1)
    /\ [][/\ Len(calls') > Len(calls) => calls = <<>>
          /\ (reportData' # reportData /\ reportData' # Null) =>
                /\ Len(calls) = 1
                /\ calls[1].op = "analyze"
                /\ calls[1].resp.kind = "http"
                /\ calls[1].resp.ok
                /\ reportData' = JsonParse(calls[1].resp.body).value.seo_report
                /\ calls' = <<>>]_vars

\* A download is in flight, the user has gone back to the form and typed a
\* URL: the submit button is disabled.
C9_Witness ==
    /\ Len(calls) = 1
    /\ calls[1].op = "download"
    /\ isLoading
    /\ view.main.kind = "form"
    /\ view.main.submitDisabled
    /\ ValidUrlField(url)

\* C10: isLoading is true exactly while a request is in flight, and every
\* started operation resets it to false in the end.
C10_LoadingEnds ==
    /\ [](isLoading <=> calls # <<>>)
    /\ (isLoading ~> ~isLoading)

\* A download that answered with a non-success status has ended and the page
\* is no longer loading.
C10_Witness ==
    /\ ~isLoading
    /\ calls = <<>>
    /\ error = Str("Failed to generate PDF.")
    /\ reportData = GoodReport

====
